---------------------------- MODULE Spec2Model ----------------------------
(***************************************************************************)
(* A model of bagua/torch_api/communication.py and bagua/torch_api/env.py: *)
(* the bootstrap of the process-wide communication state (rendezvous over  *)
(* a key-value store, the three communicators) and the four stream-ordered *)
(* collective operations.                                                  *)
(*                                                                         *)
(* One process per rank.  Each process runs the Python code on a single    *)
(* host thread; a step of the model is the code between two blocking       *)
(* points (store.get, the transport's group join, cuda synchronize) or one *)
(* item of device work taken from a stream.                                *)
(***************************************************************************)
EXTENDS Integers, Sequences, FiniteSets, TLC

\* ------------------------------------------------------------------ bounds
\* Largest WORLD_SIZE a launch may set.
MaxWorld == 4
\* Bootstrap attempts (calls of init_process_group that get past the
\* repeated-initialisation check) one process may begin.
MaxAttempts == 2

VARIABLES
    launch,     \* the job's launch: world_size, local_size, whether the
                \* environment variables are set, the init_method (split)
    pc,         \* per process: where its host thread is inside init_process_group
    outcome,    \* per process: how its latest init_process_group call ended
    attempts,   \* per process: bootstrap attempts begun
    store,      \* the rendezvous store: key -> bytes
    writes,     \* history: key -> the ranks that set it, in order
    nextId,     \* per process: unique identifiers it has generated so far
    uid,        \* per process: comm_type -> the idstr gen_nccl_unique_id returned
    ngets,      \* per process: store.get calls made
    nobj,       \* per process: objects constructed (backend, stream, communicators)
    arrivals,   \* the transport: constructor calls that entered the group join
    building,   \* per process: the BaguaGlobalState under construction
    gstate,     \* per process: the module global _global_state
    dist_initialized  \* per process: torch.distributed's default group exists

bootVars == <<launch, pc, outcome, attempts, store, writes, nextId, uid,
              ngets, nobj, arrivals, building, gstate, dist_initialized>>

VARIABLES
    round,      \* the collective the job's program calls on every rank
    later,      \* the collectives the program calls after it, in order
    ncalls,     \* per process: collectives of the program it is done with
    hpc,        \* per process: where its host thread is inside the collective
    tensors,    \* per process: the tensors the program passes, with their data
    computeQ,   \* per process: work pending on the current (compute) stream
    commQ,      \* per process: work pending on the communication stream
    commLog,    \* per process: work the communication stream has executed
    event,      \* per process: the event of record_event
    coalesced,  \* per process: the flat buffer of a coalesced call
    pre         \* per process: the data the call was given, that is the data
                \* once the compute work enqueued before the call is done

collVars == <<round, later, ncalls, hpc, tensors, computeQ, commQ, commLog, event,
              coalesced, pre>>

vars == <<bootVars, collVars>>

\* Python's None, where the other values are records.
None == [none |-> TRUE]

\* --------------------------------------------------------------- env.py
\* A decimal string, as the launcher writes it into the environment.
Digits(n) == IF n < 10 THEN <<n>> ELSE <<n \div 10, n % 10>>

\* int(s) of a decimal string.
RECURSIVE int(_)
int(s) ==
    IF Len(s) = 0 THEN 0
    ELSE 10 * int(SubSeq(s, 1, Len(s) - 1)) + s[Len(s)]

\* The processes of the job: world_size of them, or the single process of a
\* run started without the environment variables.
NProcs == IF launch.envset THEN launch.world_size ELSE 1
Procs == 0 .. NProcs - 1

\* os.environ of process p.
environ(p) ==
    IF launch.envset
    THEN [WORLD_SIZE |-> Digits(launch.world_size),
          RANK |-> Digits(p),
          LOCAL_RANK |-> Digits(p % launch.local_size),
          LOCAL_SIZE |-> Digits(launch.local_size)]
    ELSE [NONE |-> <<>>]

\* The default left out: an absent variable reads as 0.
environ_get_int_NoDefault(p, name, default) ==
    IF name \in DOMAIN environ(p) THEN int(environ(p)[name]) ELSE 0

\* os.environ.get(name, default), then int().
environ_get_int(p, name, default) ==
    IF name \in DOMAIN environ(p) THEN int(environ(p)[name]) ELSE default

get_world_size(p) == environ_get_int(p, "WORLD_SIZE", 1)

get_rank(p) == environ_get_int(p, "RANK", 0)

get_local_rank(p) == environ_get_int(p, "LOCAL_RANK", 0)

get_local_size(p) == environ_get_int(p, "LOCAL_SIZE", 1)

\* ------------------------------------------------- identifiers and the store
\* The string generate_nccl_unique_id_str returns for the n-th identifier
\* process p generates: code points, a fresh string at every call in the job.
generate_nccl_unique_id_str(p, n) == <<73, 68, 48 + p, 45, 48 + n>>

\* str -> bytes as store.set sends it (UTF-8).
RECURSIVE Utf8Encode(_)
Utf8Encode(s) ==
    IF Len(s) = 0 THEN <<>>
    ELSE (IF s[1] < 128 THEN <<s[1]>>
          ELSE <<192 + (s[1] \div 64), 128 + (s[1] % 64)>>)
         \o Utf8Encode(Tail(s))

\* str(bytes, encoding="utf-8").
RECURSIVE Utf8Decode(_)
Utf8Decode(b) ==
    IF Len(b) = 0 THEN <<>>
    ELSE IF b[1] < 128 THEN <<b[1]>> \o Utf8Decode(Tail(b))
    ELSE <<(b[1] - 192) * 64 + (b[2] - 128)>> \o Utf8Decode(Tail(Tail(b)))

\* The key without its root: every leader of a purpose sets one key.
StoreKey_NoRoot(comm_type, root) == <<comm_type, "-", 0, "-unique_id">>

\* key = f"{comm_type}-{root}-unique_id"
StoreKey(comm_type, root) == <<comm_type, "-", root, "-unique_id">>

CommTypes == {"bagua_inter_comm", "bagua_intra_comm", "bagua_global_comm"}

\* The keys a job of at most MaxWorld + 1 ranks can name.
Keys == {StoreKey(t, r) : t \in CommTypes, r \in 0 .. MaxWorld}

\* leader_rank of the inter-node communicator, BaguaGlobalState.__init__.
LeaderRank == 0

\* The intra-node root left at rank 0 on every node.
RootOf_IntraZero(p, comm_type) == 0

\* The root each init_bagua_*_communicator passes to gen_nccl_unique_id.
RootOf(p, comm_type) ==
    CASE comm_type = "bagua_inter_comm" -> LeaderRank
      [] comm_type = "bagua_intra_comm" ->
            (get_rank(p) \div get_local_size(p)) * get_local_size(p)
      [] comm_type = "bagua_global_comm" -> 0

\* The intra-node rank taken as the node index.
CommRank_IntraByNode(p, comm_type) ==
    CASE comm_type = "bagua_inter_comm" -> get_rank(p) \div get_local_size(p)
      [] comm_type = "bagua_intra_comm" -> get_rank(p) \div get_local_size(p)
      [] comm_type = "bagua_global_comm" -> get_rank(p)

\* The inter-node group sized as the whole world.
CommNRanks_InterWorld(p, comm_type) ==
    CASE comm_type = "bagua_inter_comm" -> get_world_size(p)
      [] comm_type = "bagua_intra_comm" -> get_local_size(p)
      [] comm_type = "bagua_global_comm" -> get_world_size(p)

\* The rank and nranks each init_bagua_*_communicator passes to the transport.
CommRank(p, comm_type) ==
    CASE comm_type = "bagua_inter_comm" -> get_rank(p) \div get_local_size(p)
      [] comm_type = "bagua_intra_comm" -> get_rank(p) % get_local_size(p)
      [] comm_type = "bagua_global_comm" -> get_rank(p)

CommNRanks(p, comm_type) ==
    CASE comm_type = "bagua_inter_comm" -> get_world_size(p) \div get_local_size(p)
      [] comm_type = "bagua_intra_comm" -> get_local_size(p)
      [] comm_type = "bagua_global_comm" -> get_world_size(p)

\* Membership decided by the node index instead of the intra-node rank.
InterMember_ByNode(p) == get_rank(p) \div get_local_size(p) = LeaderRank

\* init_bagua_inter_communicator returns None unless this holds.
InterMember(p) == get_rank(p) % get_local_size(p) = LeaderRank

\* ------------------------------------------------------- tensors and streams
\* A float is kept exact, as a fraction <<numerator, denominator>> in lowest
\* terms (no rounding is modelled).
RECURSIVE GCD(_, _)
GCD(a, b) == IF b = 0 THEN a ELSE GCD(b, a % b)

Frac(n, d) == LET g == GCD(n, d) IN <<n \div g, d \div g>>

FracAdd(a, b) == Frac(a[1] * b[2] + b[1] * a[2], a[2] * b[2])

\* x / k of `tensor /= comm.nranks()`.
FracDiv(a, k) == Frac(a[1], a[2] * k)

\* The element counts of the tensors the program passes, in list order; the
\* single-tensor operations are given the first.
Shapes == <<1, 2>>

\* What the tensors of process p hold when the program starts: the scalar is
\* the rank.
InitialTensors(p) ==
    << [device |-> "cuda", dtype |-> "float32",
        data |-> <<Frac(get_rank(p), 1)>>],
       [device |-> "cuda", dtype |-> "float32",
        data |-> <<Frac(10 + get_rank(p), 1), Frac(20 + 2 * get_rank(p), 1)>>] >>

\* A compute kernel of the program: it writes every element of the tensors
\* that are on the device (here: adds one).
Kernel(ts) ==
    [i \in DOMAIN ts |->
        IF ts[i].device = "cuda"
        THEN [ts[i] EXCEPT !.data = [j \in DOMAIN @ |-> FracAdd(@[j], <<1, 1>>)]]
        ELSE ts[i]]

RECURSIVE KernelTimes(_, _)
KernelTimes(ts, n) == IF n = 0 THEN ts ELSE KernelTimes(Kernel(ts), n - 1)

\* utils.flatten: the tensors' elements in one buffer, in list order.
RECURSIVE flatten(_)
flatten(ts) ==
    IF Len(ts) = 0 THEN <<>> ELSE ts[1].data \o flatten(Tail(ts))

\* The offset of tensor i's first element in the flat buffer.
RECURSIVE Offset(_, _)
Offset(ts, i) == IF i = 1 THEN 0 ELSE Offset(ts, i - 1) + Len(ts[i - 1].data)

\* utils.unflatten: views of the flat buffer, one per tensor, at the prefix
\* offsets of the tensors' element counts.
unflatten(flat, ts) ==
    [i \in DOMAIN ts |->
        SubSeq(flat, Offset(ts, i) + 1, Offset(ts, i) + Len(ts[i].data))]

\* One item of work on a stream.
Item(k, buf, i, comm, root) ==
    [k |-> k, buf |-> buf, i |-> i, root |-> root,
     uid |-> IF comm = None THEN <<>> ELSE comm.uid,
     rank |-> IF comm = None THEN 0 ELSE comm.rank,
     nranks |-> IF comm = None THEN 0 ELSE comm.nranks]

\* The wait left out: the communication stream does not wait for the event.
wait_event_None == <<>>

\* comm.cuda_stream.wait_event(event)
wait_event == <<Item("wait_event", "", 0, None, 0)>>

\* for buf, synced in zip(tensors, unflatten(coalesced, tensors)): buf.copy_(synced)
copy_back(ts) == [i \in DOMAIN ts |-> Item("copy_", "coalesced", i, None, 0)]

\* The device work each collective enqueues inside
\* `with torch.cuda.stream(comm.cuda_stream)`, in program order.
broadcast_work(ts, comm, root) == <<Item("broadcast", "tensor", 1, comm, root)>>

\* The scatter step left out: the views are never copied back.
broadcast_coalesced_work_NoCopyBack(ts, comm, root) ==
    <<Item("flatten", "coalesced", 0, None, 0),
      Item("broadcast", "coalesced", 0, comm, root)>>

broadcast_coalesced_work(ts, comm, root) ==
    <<Item("flatten", "coalesced", 0, None, 0),
      Item("broadcast", "coalesced", 0, comm, root)>> \o copy_back(ts)

\* The division put on the stream before the reduction.
allreduce_work_DivFirst(ts, comm, average) ==
    (IF average THEN <<Item("div", "tensor", 1, comm, 0)>> ELSE <<>>)
    \o <<Item("allreduce", "tensor", 1, comm, 0)>>

allreduce_work(ts, comm, average) ==
    <<Item("allreduce", "tensor", 1, comm, 0)>>
    \o (IF average THEN <<Item("div", "tensor", 1, comm, 0)>> ELSE <<>>)

\* The views copied back before the flat buffer is divided.
allreduce_coalesced_work_DivAfterCopy(ts, comm, average) ==
    <<Item("flatten", "coalesced", 0, None, 0),
      Item("allreduce", "coalesced", 0, comm, 0)>>
    \o copy_back(ts)
    \o (IF average THEN <<Item("div", "coalesced", 0, comm, 0)>> ELSE <<>>)

allreduce_coalesced_work(ts, comm, average) ==
    <<Item("flatten", "coalesced", 0, None, 0),
      Item("allreduce", "coalesced", 0, comm, 0)>>
    \o (IF average THEN <<Item("div", "coalesced", 0, comm, 0)>> ELSE <<>>)
    \o copy_back(ts)

\* ------------------------------------------------------------- the launch
\* init_method.split("://") of the init methods a job is started with:
\* "dist://", "file:///tmp/store", "tcp://host" and "file".
InitMethods == {<<"dist", "">>, <<"file", "/tmp/store">>, <<"tcp", "host">>, <<"file">>}

Launches ==
    { [world_size |-> w, local_size |-> l, envset |-> TRUE, metas |-> m] :
        w \in 1 .. MaxWorld, l \in 1 .. MaxWorld, m \in InitMethods }
    \cup
    { [world_size |-> 1, local_size |-> 1, envset |-> FALSE, metas |-> m] :
        m \in InitMethods }

Idle == <<"idle", "">>

NoIds == [t \in CommTypes |-> <<>>]

\* No collective is under way on any process and no work is on a stream.
StreamsIdle ==
    /\ ncalls = [p \in Procs |-> 0]
    /\ hpc = [p \in Procs |-> "idle"]
    /\ computeQ = [p \in Procs |-> <<>>]
    /\ commQ = [p \in Procs |-> <<>>]
    /\ commLog = [p \in Procs |-> <<>>]
    /\ event = [p \in Procs |-> "none"]
    /\ coalesced = [p \in Procs |-> <<>>]
    /\ pre = [p \in Procs |-> <<>>]

\* The program has not started, and calls one collective.
CollInit ==
    /\ later = <<>>
    /\ tensors = [p \in Procs |-> InitialTensors(p)]
    /\ StreamsIdle

\* No collective is called while the job bootstraps.
NoRound ==
    [op |-> "none", tier |-> "default", root |-> 0, average |-> FALSE,
     kernels |-> 0]

Init ==
    /\ launch \in {c \in Launches : c.local_size <= c.world_size}
    /\ round = NoRound
    /\ CollInit
    /\ pc = [p \in Procs |-> Idle]
    /\ outcome = [p \in Procs |-> "none"]
    /\ attempts = [p \in Procs |-> 0]
    /\ store = <<>>
    /\ writes = <<>>
    /\ nextId = [p \in Procs |-> 0]
    /\ uid = [p \in Procs |-> NoIds]
    /\ ngets = [p \in Procs |-> 0]
    /\ nobj = [p \in Procs |-> 0]
    /\ arrivals = {}
    /\ building = [p \in Procs |-> None]
    /\ gstate = [p \in Procs |-> None]
    /\ dist_initialized = [p \in Procs |-> FALSE]

\* ------------------------------------------------------------- bootstrap
\* The check that never sees the global state.
is_initialized_Never(p) == FALSE

is_initialized(p) == gstate[p] # None

\* Every scheme taken as legal.
IllegalInitMethod_None(metas) == FALSE

\* metas[0] not in ["dist", "file"]
IllegalInitMethod(metas) == metas[1] \notin {"dist", "file"}

\* f with f[k] set to v, k added to its domain when new.
Put(f, k, v) == [x \in DOMAIN f \cup {k} |-> IF x = k THEN v ELSE f[x]]

\* init_process_group up to the first call that may block: the checks, the
\* store, and BaguaGlobalState.__init__ up to its first communicator.
init_process_group(p) ==
    /\ pc[p] = Idle
    /\ IF is_initialized(p)
       THEN /\ outcome' = [outcome EXCEPT ![p] = "RepeatedInitializationError"]
            /\ UNCHANGED <<pc, attempts, uid, nobj, building, dist_initialized>>
       ELSE /\ attempts[p] < MaxAttempts
            /\ attempts' = [attempts EXCEPT ![p] = @ + 1]
            /\ IF IllegalInitMethod(launch.metas)
               THEN /\ outcome' = [outcome EXCEPT ![p] = "ValueError"]
                    /\ UNCHANGED <<pc, uid, nobj, building, dist_initialized>>
               ELSE IF launch.metas[1] = "file" /\ Len(launch.metas) < 2
               THEN /\ outcome' = [outcome EXCEPT ![p] = "IndexError"]
                    /\ UNCHANGED <<pc, uid, nobj, building, dist_initialized>>
               ELSE /\ dist_initialized' =
                         [dist_initialized EXCEPT
                            ![p] = @ \/ launch.metas[1] = "dist"]
                    /\ building' =
                         [building EXCEPT
                            ![p] = [backend |-> nobj[p] + 1,
                                    stream |-> nobj[p] + 2,
                                    store |-> launch.metas[1],
                                    device_id |-> get_local_rank(p),
                                    comms |-> <<>>]]
                    /\ nobj' = [nobj EXCEPT ![p] = @ + 2]
                    /\ uid' = [uid EXCEPT ![p] = NoIds]
                    /\ outcome' = [outcome EXCEPT ![p] = "running"]
                    /\ pc' = [pc EXCEPT ![p] = <<"gen", "bagua_inter_comm">>]
    /\ UNCHANGED <<launch, store, writes, nextId, ngets, arrivals, gstate>>
    /\ UNCHANGED collVars

\* A store.get that does not wait: on a rank that is not the root the call
\* returns empty bytes when the key is not there.
gen_nccl_unique_id_NoWait(p) ==
    /\ pc[p][1] = "gen"
    /\ LET comm_type == pc[p][2]
           root == RootOf(p, comm_type)
           key == StoreKey(comm_type, root)
       IN  /\ IF get_rank(p) = root
              THEN LET idstr == generate_nccl_unique_id_str(p, nextId[p])
                   IN  /\ nextId' = [nextId EXCEPT ![p] = @ + 1]
                       /\ store' = Put(store, key, Utf8Encode(idstr))
                       /\ writes' = Put(writes, key,
                                        (IF key \in DOMAIN writes
                                         THEN writes[key] ELSE <<>>)
                                        \o <<get_rank(p)>>)
                       /\ uid' = [uid EXCEPT ![p][comm_type] = idstr]
                       /\ UNCHANGED ngets
              ELSE /\ uid' = [uid EXCEPT ![p][comm_type] =
                                IF key \in DOMAIN store
                                THEN Utf8Decode(store[key]) ELSE <<>>]
                   /\ ngets' = [ngets EXCEPT ![p] = @ + 1]
                   /\ UNCHANGED <<nextId, store, writes>>
           /\ pc' = [pc EXCEPT ![p] = <<"construct", comm_type>>]
    /\ UNCHANGED <<launch, outcome, attempts, nobj, arrivals, building, gstate,
                   dist_initialized>>
    /\ UNCHANGED collVars

\* gen_nccl_unique_id, called by init_bagua_{inter,intra,}_communicator: the
\* root generates and sets, every other rank gets (and blocks until the key
\* exists).
gen_nccl_unique_id(p) ==
    /\ pc[p][1] = "gen"
    /\ LET comm_type == pc[p][2]
           root == RootOf(p, comm_type)
           key == StoreKey(comm_type, root)
       IN  /\ IF get_rank(p) = root
              THEN LET idstr == generate_nccl_unique_id_str(p, nextId[p])
                   IN  /\ nextId' = [nextId EXCEPT ![p] = @ + 1]
                       /\ store' = Put(store, key, Utf8Encode(idstr))
                       /\ writes' = Put(writes, key,
                                        (IF key \in DOMAIN writes
                                         THEN writes[key] ELSE <<>>)
                                        \o <<get_rank(p)>>)
                       /\ uid' = [uid EXCEPT ![p][comm_type] = idstr]
                       /\ UNCHANGED ngets
              ELSE /\ key \in DOMAIN store
                   /\ uid' = [uid EXCEPT ![p][comm_type] = Utf8Decode(store[key])]
                   /\ ngets' = [ngets EXCEPT ![p] = @ + 1]
                   /\ UNCHANGED <<nextId, store, writes>>
           /\ pc' = [pc EXCEPT ![p] = <<"construct", comm_type>>]
    /\ UNCHANGED <<launch, outcome, attempts, nobj, arrivals, building, gstate,
                   dist_initialized>>
    /\ UNCHANGED collVars

\* store.get(key) is called without a timeout of its own, so the store's
\* applies: when the key does not appear, because its root has stopped, get
\* raises in the end, and the error leaves gen_nccl_unique_id,
\* BaguaGlobalState.__init__ and init_process_group.
store_get_timeout(p) ==
    /\ pc[p][1] = "gen"
    /\ get_rank(p) # RootOf(p, pc[p][2])
    /\ StoreKey(pc[p][2], RootOf(p, pc[p][2])) \notin DOMAIN store
    /\ pc[RootOf(p, pc[p][2])] = <<"crashed", "">>
    /\ ngets' = [ngets EXCEPT ![p] = @ + 1]
    /\ outcome' = [outcome EXCEPT ![p] = "StoreTimeout"]
    /\ building' = [building EXCEPT ![p] = None]
    /\ pc' = [pc EXCEPT ![p] = Idle]
    /\ UNCHANGED <<launch, attempts, store, writes, nextId, uid, nobj, arrivals,
                   gstate, dist_initialized>>
    /\ UNCHANGED collVars

\* The communicator after comm_type in BaguaGlobalState.__init__.
NextCommType(comm_type) ==
    IF comm_type = "bagua_inter_comm" THEN "bagua_intra_comm" ELSE "bagua_global_comm"

\* The rest of an init_bagua_*_communicator after gen_nccl_unique_id, up to
\* the transport's group join: the inter-node function returns None on a rank
\* that is no member; the transport refuses a rank outside 0 .. nranks - 1.
BaguaSingleCommunicatorPy_enter(p) ==
    /\ pc[p][1] = "construct"
    /\ LET comm_type == pc[p][2]
           rank == CommRank(p, comm_type)
           nranks == CommNRanks(p, comm_type)
       IN  IF comm_type = "bagua_inter_comm" /\ ~InterMember(p)
           THEN /\ building' = [building EXCEPT
                                   ![p].comms = Put(@, comm_type, None)]
                /\ pc' = [pc EXCEPT ![p] = <<"gen", NextCommType(comm_type)>>]
                /\ UNCHANGED <<outcome, arrivals>>
           ELSE IF rank >= nranks
           THEN /\ outcome' = [outcome EXCEPT ![p] = "TransportError"]
                /\ building' = [building EXCEPT ![p] = None]
                /\ pc' = [pc EXCEPT ![p] = Idle]
                /\ UNCHANGED arrivals
           ELSE /\ arrivals' = arrivals \cup
                        {[proc |-> p, comm_type |-> comm_type,
                          uid |-> uid[p][comm_type],
                          rank |-> rank, nranks |-> nranks]}
                /\ pc' = [pc EXCEPT ![p] = <<"join", comm_type>>]
                /\ UNCHANGED <<outcome, building>>
    /\ UNCHANGED <<launch, attempts, store, writes, nextId, uid, ngets, nobj,
                   gstate, dist_initialized>>
    /\ UNCHANGED collVars

\* A group join that waits for as many ranks as the job has.
Joined_AwaitsWorld(id, nranks) ==
    \A k \in 0 .. NProcs - 1 :
        \E a \in arrivals : a.uid = id /\ a.nranks = nranks /\ a.rank = k

\* The transport's group join is over: every rank 0 .. nranks - 1 of the
\* group named by the identifier has entered it.
Joined(id, nranks) ==
    \A k \in 0 .. nranks - 1 :
        \E a \in arrivals : a.uid = id /\ a.nranks = nranks /\ a.rank = k

\* The state published once the intra-node communicator is built.
LastCommType_Intra == "bagua_intra_comm"

\* The communicator BaguaGlobalState.__init__ builds last, before it returns
\* and init_process_group assigns _global_state.
LastCommType == "bagua_global_comm"

\* The constructor returns; the init_bagua_*_communicator function sets
\* comm.cuda_stream and returns the communicator; after the global one
\* BaguaGlobalState.__init__ returns and init_process_group assigns
\* _global_state.
BaguaSingleCommunicatorPy_return(p) ==
    /\ pc[p][1] = "join"
    /\ LET comm_type == pc[p][2]
           comm == [oid |-> nobj[p] + 1,
                    rank |-> CommRank(p, comm_type),
                    nranks |-> CommNRanks(p, comm_type),
                    device_id |-> building[p].device_id,
                    cuda_stream |-> building[p].stream,
                    uid |-> uid[p][comm_type]]
           built == [building[p] EXCEPT !.comms = Put(@, comm_type, comm)]
       IN  /\ Joined(uid[p][comm_type], CommNRanks(p, comm_type))
           /\ nobj' = [nobj EXCEPT ![p] = @ + 1]
           /\ IF comm_type = LastCommType
              THEN /\ gstate' = [gstate EXCEPT ![p] = built]
                   /\ building' = [building EXCEPT ![p] = None]
                   /\ outcome' = [outcome EXCEPT ![p] = "ok"]
                   /\ pc' = [pc EXCEPT ![p] = Idle]
              ELSE /\ building' = [building EXCEPT ![p] = built]
                   /\ pc' = [pc EXCEPT ![p] = <<"gen", NextCommType(comm_type)>>]
                   /\ UNCHANGED <<gstate, outcome>>
    /\ UNCHANGED <<launch, attempts, store, writes, nextId, uid, ngets,
                   arrivals, dist_initialized>>
    /\ UNCHANGED collVars

\* -------------------------------------------------- the state after bootstrap
\* Rank 0 generates the inter-node, its intra-node and the global identifier,
\* in this order; every other node leader generates its intra-node one.
IdIndex(root, comm_type) ==
    IF root # 0 THEN 0
    ELSE CASE comm_type = "bagua_inter_comm" -> 0
           [] comm_type = "bagua_intra_comm" -> 1
           [] comm_type = "bagua_global_comm" -> 2

BootUid(p, comm_type) ==
    generate_nccl_unique_id_str(RootOf(p, comm_type),
                                IdIndex(RootOf(p, comm_type), comm_type))

\* The communicators a process holds; the backend is a process's first
\* object, the stream its second, the communicators follow.
BootComm(p, comm_type) ==
    IF comm_type = "bagua_inter_comm" /\ ~InterMember(p) THEN None
    ELSE [oid |-> (IF InterMember(p) THEN 3 ELSE 2)
                    + (CASE comm_type = "bagua_inter_comm" -> 0
                         [] comm_type = "bagua_intra_comm" -> 1
                         [] comm_type = "bagua_global_comm" -> 2),
          rank |-> CommRank(p, comm_type),
          nranks |-> CommNRanks(p, comm_type),
          device_id |-> get_local_rank(p),
          cuda_stream |-> 2,
          uid |-> BootUid(p, comm_type)]

BootGlobalState(p) ==
    [backend |-> 1, stream |-> 2, store |-> launch.metas[1],
     device_id |-> get_local_rank(p),
     comms |-> [t \in CommTypes |-> BootComm(p, t)]]

BootKeys == {StoreKey(t, RootOf(p, t)) : p \in Procs, t \in CommTypes}

\* The state every rank of a job has reached when each has called
\* init_process_group once and the call has returned.
Bootstrapped ==
    /\ pc = [p \in Procs |-> Idle]
    /\ outcome = [p \in Procs |-> "ok"]
    /\ attempts = [p \in Procs |-> 1]
    /\ store = [k \in BootKeys |->
                  Utf8Encode(generate_nccl_unique_id_str(k[3], IdIndex(k[3], k[1])))]
    /\ writes = [k \in BootKeys |-> <<k[3]>>]
    /\ nextId = [p \in Procs |->
                   Cardinality({t \in CommTypes : RootOf(p, t) = get_rank(p)})]
    /\ uid = [p \in Procs |-> [t \in CommTypes |-> BootUid(p, t)]]
    /\ ngets = [p \in Procs |->
                  Cardinality({t \in CommTypes : RootOf(p, t) # get_rank(p)})]
    /\ nobj = [p \in Procs |-> IF InterMember(p) THEN 5 ELSE 4]
    /\ arrivals = {[proc |-> a[1], comm_type |-> a[2], uid |-> BootUid(a[1], a[2]),
                    rank |-> CommRank(a[1], a[2]),
                    nranks |-> CommNRanks(a[1], a[2])] :
                      a \in {x \in Procs \X CommTypes : BootComm(x[1], x[2]) # None}}
    /\ building = [p \in Procs |-> None]
    /\ gstate = [p \in Procs |-> BootGlobalState(p)]
    /\ dist_initialized = [p \in Procs |-> launch.metas[1] = "dist"]

\* Every run of the bootstrap in which each rank calls once ends there.
BootstrapEndsBootstrapped ==
    (\A p \in Procs : gstate[p] # None /\ outcome[p] = "ok" /\ attempts[p] = 1)
        => Bootstrapped

\* ------------------------------------------------------------- collectives
Ops == {"broadcast", "broadcast_coalesced", "allreduce", "allreduce_coalesced"}

Tiers == {"default", "intra", "inter"}

\* The size of the communicator a tier names.
TierSize(c, tier) ==
    CASE tier = "default" -> c.world_size
      [] tier = "intra" -> c.local_size
      [] tier = "inter" -> c.world_size \div c.local_size

\* Kernels writing the tensors that a program may have pending on the current
\* stream when it calls a collective.
MaxPending == 1

\* The collectives a program may call on the job c: a broadcast names a root
\* of the communicator, an allreduce says whether to average; kernels is the
\* number of kernels the program launches right before the call.
Rounds(c) ==
    { r \in [op : Ops, tier : Tiers, root : 0 .. c.world_size - 1,
             average : BOOLEAN, kernels : 0 .. MaxPending] :
        /\ r.root < TierSize(c, r.tier)
        /\ r.op \in {"broadcast", "broadcast_coalesced"} => ~r.average
        /\ r.op \in {"allreduce", "allreduce_coalesced"} => r.root = 0 }

\* The jobs the collectives are run on: one rank; two and three ranks, one
\* per node and all on one node; four ranks on two nodes.
CollLaunches ==
    { c \in Launches :
        /\ c.envset /\ c.metas = <<"dist", "">>
        /\ <<c.world_size, c.local_size>>
              \in {<<1, 1>>, <<2, 1>>, <<2, 2>>, <<3, 1>>, <<3, 3>>, <<4, 2>>} }

InitColl ==
    /\ launch \in CollLaunches
    /\ Bootstrapped
    /\ round \in Rounds(launch)
    /\ CollInit

\* The collective process p is at in the program.
CurRound(p) == IF ncalls[p] = 0 THEN round ELSE later[ncalls[p]]

\* The comm argument the program passes: nothing, or the communicator of the
\* tier from its accessor (None on a rank outside the inter-node group).
CommArg(p) ==
    CASE CurRound(p).tier = "default" -> None
      [] CurRound(p).tier = "intra" -> gstate[p].comms["bagua_intra_comm"]
      [] CurRound(p).tier = "inter" -> gstate[p].comms["bagua_inter_comm"]

\* if comm is None: comm = _get_global_state().get_global_communicator()
CommUsed(p) ==
    IF CommArg(p) = None THEN gstate[p].comms["bagua_global_comm"] ELSE CommArg(p)

\* The program calls a collective of a tier only on the ranks that hold its
\* communicator.
MayCall(p) ==
    /\ gstate[p] # None
    /\ hpc[p] = "idle"
    /\ ncalls[p] <= Len(later)
    /\ CurRound(p).tier = "inter" => CommArg(p) # None

\* The current stream after the program has launched n more kernels on it.
RECURSIVE launch_kernels(_, _)
launch_kernels(q, n) ==
    IF n = 0 THEN q
    ELSE launch_kernels(Append(q, Item("kernel", "", 0, None, 0)), n - 1)

\* The kernels pending in a stream.
PendingKernels(q) == Cardinality({i \in DOMAIN q : q[i].k = "kernel"})

\* The program launches its kernels and calls the collective; the host
\* thread does not block in between, the device runs the work later.  The
\* collective from its first line to torch.cuda.synchronize(): the device
\* assertion on its inputs, the default communicator, record_event on the
\* current stream, wait_event and the device work on the communicator's stream.
Collective(p, inputs, work) ==
    /\ MayCall(p)
    /\ LET current == launch_kernels(computeQ[p], CurRound(p).kernels)
           recorded == Append(current, Item("event", "", 0, None, 0))
       IN  IF \E i \in inputs : tensors[p][i].device = "cpu"
           THEN /\ hpc' = [hpc EXCEPT ![p] = "AssertionError"]
                /\ computeQ' = [computeQ EXCEPT ![p] = current]
                /\ UNCHANGED <<commQ, event, pre>>
           ELSE IF /\ work # <<>> /\ work[1].k = "flatten"
                   /\ \E i, j \in inputs : tensors[p][i].dtype # tensors[p][j].dtype
           THEN /\ computeQ' = [computeQ EXCEPT ![p] = recorded]
                /\ event' = [event EXCEPT ![p] = "recorded"]
                /\ commQ' = [commQ EXCEPT ![p] = @ \o wait_event]
                /\ hpc' = [hpc EXCEPT ![p] = "flatten_error"]
                /\ UNCHANGED pre
           ELSE /\ computeQ' = [computeQ EXCEPT
                                  ![p] = Append(current,
                                                Item("event", "", 0, None, 0))]
                /\ event' = [event EXCEPT ![p] = "recorded"]
                /\ commQ' = [commQ EXCEPT ![p] = @ \o wait_event \o work]
                /\ pre' = [pre EXCEPT
                             ![p] = KernelTimes(tensors[p], PendingKernels(current))]
                /\ hpc' = [hpc EXCEPT ![p] = "synchronize"]
    /\ UNCHANGED <<round, later, ncalls, tensors, commLog, coalesced>>
    /\ UNCHANGED bootVars

broadcast(p) ==
    /\ CurRound(p).op = "broadcast"
    /\ Collective(p, {1}, broadcast_work(tensors[p], CommUsed(p), CurRound(p).root))

\* The device assertion made on the first tensor of the list only.
broadcast_coalesced_AssertsFirst(p) ==
    /\ CurRound(p).op = "broadcast_coalesced"
    /\ Collective(p, {1},
                  broadcast_coalesced_work(tensors[p], CommUsed(p), CurRound(p).root))

broadcast_coalesced(p) ==
    /\ CurRound(p).op = "broadcast_coalesced"
    /\ Collective(p, DOMAIN tensors[p],
                  broadcast_coalesced_work(tensors[p], CommUsed(p), CurRound(p).root))

allreduce(p) ==
    /\ CurRound(p).op = "allreduce"
    /\ Collective(p, {1}, allreduce_work(tensors[p], CommUsed(p), CurRound(p).average))

allreduce_coalesced(p) ==
    /\ CurRound(p).op = "allreduce_coalesced"
    /\ Collective(p, DOMAIN tensors[p],
                  allreduce_coalesced_work(tensors[p], CommUsed(p), CurRound(p).average))

\* The device runs the next item of the current stream: a kernel of the
\* program, or the event's record, which completes the event.
compute_stream_step(p) ==
    /\ computeQ[p] # <<>>
    /\ computeQ' = [computeQ EXCEPT ![p] = Tail(@)]
    /\ IF Head(computeQ[p]).k = "kernel"
       THEN /\ tensors' = [tensors EXCEPT ![p] = Kernel(@)]
            /\ UNCHANGED event
       ELSE /\ event' = [event EXCEPT ![p] = "complete"]
            /\ UNCHANGED tensors
    /\ UNCHANGED <<round, later, ncalls, hpc, commQ, commLog, coalesced, pre>>
    /\ UNCHANGED bootVars

\* The buffer an item works on, and the tensors and flat buffer of p with
\* that buffer replaced.
BufferOf(p, item) ==
    IF item.buf = "tensor" THEN tensors[p][item.i].data ELSE coalesced[p]

\* The device runs the next item of the communication stream, when it is
\* local work: the wait for the event, the flatten copy, the division, the
\* copy of a view back into its tensor.
comm_stream_step(p) ==
    /\ commQ[p] # <<>>
    /\ LET item == Head(commQ[p])
       IN  /\ item.k \in {"wait_event", "flatten", "div", "copy_"}
           /\ item.k = "wait_event" => event[p] = "complete"
           /\ coalesced' =
                [coalesced EXCEPT ![p] =
                    CASE item.k = "flatten" -> flatten(tensors[p])
                      [] item.k = "div" /\ item.buf = "coalesced" ->
                            [j \in DOMAIN @ |-> FracDiv(@[j], item.nranks)]
                      [] OTHER -> @]
           /\ tensors' =
                [tensors EXCEPT ![p] =
                    CASE item.k = "div" /\ item.buf = "tensor" ->
                            [@ EXCEPT ![item.i].data =
                                [j \in DOMAIN @ |-> FracDiv(@[j], item.nranks)]]
                      [] item.k = "copy_" ->
                            [@ EXCEPT ![item.i].data =
                                unflatten(coalesced[p], tensors[p])[item.i]]
                      [] OTHER -> @]
           /\ commLog' = [commLog EXCEPT ![p] = Append(@, item)]
    /\ commQ' = [commQ EXCEPT ![p] = Tail(@)]
    /\ UNCHANGED <<round, later, ncalls, hpc, computeQ, event, pre>>
    /\ UNCHANGED bootVars

\* The processes whose communication stream has reached a transport
\* operation k of the group named by identifier id.
AtTransport(k, id) ==
    {p \in Procs : /\ commQ[p] # <<>>
                   /\ Head(commQ[p]).k = k
                   /\ Head(commQ[p]).uid = id}

\* The sum of the j-th elements of the members' buffers.
RECURSIVE SumOver(_, _, _)
SumOver(members, bufs, j) ==
    IF members = {} THEN <<0, 1>>
    ELSE LET m == CHOOSE x \in members : TRUE
         IN  FracAdd(bufs[m][j], SumOver(members \ {m}, bufs, j))

\* comm.broadcast(buffer, root): every member's buffer becomes the buffer of
\* the member whose rank in the group is root.
BroadcastResult(members, p) ==
    LET src == CHOOSE m \in members : Head(commQ[m]).rank = Head(commQ[p]).root
    IN  BufferOf(src, Head(commQ[src]))

\* comm.allreduce(buffer): every member's buffer becomes the element-wise sum
\* of the members' buffers.
AllreduceResult(members, p) ==
    LET bufs == [m \in members |-> BufferOf(m, Head(commQ[m]))]
    IN  [j \in DOMAIN bufs[p] |-> SumOver(members, bufs, j)]

\* The transport runs a collective once every rank of the group has reached
\* it on its stream; newbuf gives each member's buffer afterwards.
TransportRuns(k, id) ==
    LET members == AtTransport(k, id)
        newbuf(ms, p) == IF k = "broadcast" THEN BroadcastResult(ms, p)
                         ELSE AllreduceResult(ms, p)
    IN  /\ members # {}
        /\ \A m \in members :
              {Head(commQ[x]).rank : x \in members} = 0 .. Head(commQ[m]).nranks - 1
        /\ tensors' =
             [p \in Procs |->
                 IF p \in members /\ Head(commQ[p]).buf = "tensor"
                 THEN [tensors[p] EXCEPT ![Head(commQ[p]).i].data = newbuf(members, p)]
                 ELSE tensors[p]]
        /\ coalesced' =
             [p \in Procs |->
                 IF p \in members /\ Head(commQ[p]).buf = "coalesced"
                 THEN newbuf(members, p)
                 ELSE coalesced[p]]
        /\ commLog' = [p \in Procs |->
                         IF p \in members THEN Append(commLog[p], Head(commQ[p]))
                         ELSE commLog[p]]
        /\ commQ' = [p \in Procs |->
                       IF p \in members THEN Tail(commQ[p]) ELSE commQ[p]]
        /\ UNCHANGED <<round, later, ncalls, hpc, computeQ, event, pre>>
        /\ UNCHANGED bootVars

comm_broadcast(id) == TransportRuns("broadcast", id)

comm_allreduce(id) == TransportRuns("allreduce", id)

\* The identifiers of the job's communicators.
Uids == {uid[p][t] : p \in Procs, t \in CommTypes}

\* A wait for the current stream only.
cuda_synchronize_CurrentStream(p) == computeQ[p] = <<>>

\* torch.cuda.synchronize(): no work is left on any stream of the device.
cuda_synchronize(p) == computeQ[p] = <<>> /\ commQ[p] = <<>>

\* The collective returns without waiting for the device.
collective_return_NoSync(p) ==
    /\ hpc[p] = "synchronize"
    /\ hpc' = [hpc EXCEPT ![p] = "returned"]
    /\ UNCHANGED <<round, later, ncalls, tensors, computeQ, commQ, commLog,
                   event, coalesced, pre>>
    /\ UNCHANGED bootVars

\* The collective returns to the program.
collective_return(p) ==
    /\ hpc[p] = "synchronize"
    /\ cuda_synchronize(p)
    /\ hpc' = [hpc EXCEPT ![p] = "returned"]
    /\ UNCHANGED <<round, later, ncalls, tensors, computeQ, commQ, commLog,
                   event, coalesced, pre>>
    /\ UNCHANGED bootVars

NextColl ==
    \/ \E p \in Procs : broadcast(p)
    \/ \E p \in Procs : broadcast_coalesced(p)
    \/ \E p \in Procs : allreduce(p)
    \/ \E p \in Procs : allreduce_coalesced(p)
    \/ \E p \in Procs : compute_stream_step(p)
    \/ \E p \in Procs : comm_stream_step(p)
    \/ \E id \in Uids : comm_broadcast(id)
    \/ \E id \in Uids : comm_allreduce(id)
    \/ \E p \in Procs : collective_return(p)

SpecColl == InitColl /\ [][NextColl]_vars

\* ------------------------------------------- collectives on other arguments
\* The tensors a program may pass instead: the first or the second on the
\* host, or the second of another element type.
TensorVariants(p) ==
    { InitialTensors(p),
      [InitialTensors(p) EXCEPT ![1].device = "cpu"],
      [InitialTensors(p) EXCEPT ![2].device = "cpu"],
      [InitialTensors(p) EXCEPT ![2].dtype = "int64"] }

\* The jobs these programs are run on: one rank, and two ranks on two nodes
\* and on one.
ArgLaunches ==
    { c \in CollLaunches :
        <<c.world_size, c.local_size>> \in {<<1, 1>>, <<2, 1>>, <<2, 2>>} }

InitArgs ==
    /\ launch \in ArgLaunches
    /\ Bootstrapped
    /\ round \in Rounds(launch)
    /\ later = <<>>
    /\ tensors \in { f \in [Procs -> UNION {TensorVariants(p) : p \in Procs}] :
                        \A p \in Procs : f[p] \in TensorVariants(p) }
    /\ StreamsIdle

SpecArgs == InitArgs /\ [][NextColl]_vars

\* ------------------------------------------- programs of two collectives
\* The program goes on to its next collective: after the call before it has
\* returned, or at once on a rank that does not hold the inter-node
\* communicator and so leaves the call out.
program_step(p) ==
    /\ gstate[p] # None
    /\ ncalls[p] < Len(later)
    /\ \/ hpc[p] = "returned"
       \/ hpc[p] = "idle" /\ CurRound(p).tier = "inter" /\ CommArg(p) = None
    /\ ncalls' = [ncalls EXCEPT ![p] = @ + 1]
    /\ hpc' = [hpc EXCEPT ![p] = "idle"]
    /\ UNCHANGED <<round, later, tensors, computeQ, commQ, commLog, event,
                   coalesced, pre>>
    /\ UNCHANGED bootVars

\* The collectives of these programs: root 0, the coalesced allreduce
\* averaging, no kernel or the most a program has pending before the call.
SeqRounds(c) ==
    { r \in Rounds(c) :
        /\ r.root = 0
        /\ r.average = (r.op = "allreduce_coalesced")
        /\ r.kernels \in {0, MaxPending} }

\* The jobs these programs are run on: one rank, and two ranks on two nodes
\* and on one.
SeqLaunches ==
    { c \in CollLaunches :
        <<c.world_size, c.local_size>> \in {<<1, 1>>, <<2, 1>>, <<2, 2>>} }

\* Every rank runs the same program: a collective without kernels pending,
\* then a second one.
InitSeq ==
    /\ launch \in SeqLaunches
    /\ Bootstrapped
    /\ round \in {r \in SeqRounds(launch) : r.kernels = 0}
    /\ later \in {<<r>> : r \in SeqRounds(launch)}
    /\ tensors = [p \in Procs |-> InitialTensors(p)]
    /\ StreamsIdle

NextSeq ==
    \/ NextColl
    \/ \E p \in Procs : program_step(p)

SpecSeq == InitSeq /\ [][NextSeq]_vars

Next ==
    \/ \E p \in Procs : init_process_group(p)
    \/ \E p \in Procs : gen_nccl_unique_id(p)
    \/ \E p \in Procs : BaguaSingleCommunicatorPy_enter(p)
    \/ \E p \in Procs : BaguaSingleCommunicatorPy_return(p)

\* The bootstrap of a job whose ranks are started together: every root
\* sets its key long before a store.get of it reaches the store's timeout.
Spec == Init /\ [][Next]_vars

\* ------------------------------------------------- bootstrap under fairness
\* Every rank of a job with world_size a multiple of local_size (all such
\* jobs of one to four ranks) and a legal init_method calls init_process_group; no process stops; the host thread
\* of each process goes on whenever it can, that is whenever the call it is
\* in (store.get, the transport's group join) can return.
LiveLaunches ==
    { c \in Launches :
        /\ c.envset
        /\ c.metas \in {<<"dist", "">>, <<"file", "/tmp/store">>}
        /\ <<c.world_size, c.local_size>>
              \in {<<1, 1>>, <<2, 1>>, <<2, 2>>, <<3, 1>>, <<3, 3>>,
                   <<4, 1>>, <<4, 2>>, <<4, 4>>} }

InitLive == Init /\ launch \in LiveLaunches

\* The next step of the host thread of process p: its position allows one of
\* the four at a time.
HostStep(p) ==
    \/ init_process_group(p)
    \/ gen_nccl_unique_id(p)
    \/ BaguaSingleCommunicatorPy_enter(p)
    \/ BaguaSingleCommunicatorPy_return(p)

Fairness == \A p \in 0 .. MaxWorld : WF_vars(p \in Procs /\ HostStep(p))

SpecLive == InitLive /\ [][Next]_vars /\ Fairness

\* ------------------------------------------------- a leader that crashes
\* With a root that never sets its key, a store.get of the key lasts until
\* the store's timeout.
Crashed == <<"crashed", "">>

\* The process of a root stops for good where it is about to generate and
\* set its identifier.
crash(p) ==
    /\ pc[p][1] = "gen"
    /\ get_rank(p) = RootOf(p, pc[p][2])
    /\ pc' = [pc EXCEPT ![p] = Crashed]
    /\ outcome' = [outcome EXCEPT ![p] = "crashed"]
    /\ UNCHANGED <<launch, attempts, store, writes, nextId, uid, ngets, nobj,
                   arrivals, building, gstate, dist_initialized>>
    /\ UNCHANGED collVars

\* The jobs a crash is looked at in: two to four ranks, started with dist://.
CrashLaunches ==
    { c \in Launches :
        /\ c.envset /\ c.metas = <<"dist", "">>
        /\ <<c.world_size, c.local_size>>
              \in {<<2, 1>>, <<2, 2>>, <<3, 1>>, <<4, 2>>} }

InitCrash == Init /\ launch \in CrashLaunches

NextCrash ==
    \/ Next
    \/ \E p \in Procs : crash(p)
    \/ \E p \in Procs : store_get_timeout(p)

SpecCrash == InitCrash /\ [][NextCrash]_vars

\* ------------------------------------------- bootstrap with failing steps
\* Jobs of one to three ranks, with every init_method and every LOCAL_SIZE:
\* the store may not be created, the transport may refuse a rank, a root may
\* stop and a store.get of its key time out.
InitFail == Init /\ launch.world_size <= 3

SpecFail == InitFail /\ [][NextCrash]_vars

\* ------------------------------------------------------------ bootstrap claims
Initialized(p) == gstate[p] # None

AllInitialized == \A p \in Procs : Initialized(p)

\* world_size is a multiple of local_size, as every process reads them.
ValidLaunch == \A p \in Procs : get_world_size(p) % get_local_size(p) = 0

\* The communicator slot of an initialised process.
CommOf(p, comm_type) == gstate[p].comms[comm_type]

\* C1: once init_process_group has completed on a process, no later step of
\* that process changes its global state object (backend, stream, the three
\* communicators), constructs an object, generates or sets an identifier, or
\* gets a key; the process stays outside the bootstrap, and the only way its
\* call outcome changes is to RepeatedInitializationError.
C1_RepeatedInitRejected ==
    [][\A p \in Procs :
          gstate[p] # None =>
             /\ gstate'[p] = gstate[p]
             /\ nobj'[p] = nobj[p]
             /\ nextId'[p] = nextId[p]
             /\ ngets'[p] = ngets[p]
             /\ uid'[p] = uid[p]
             /\ building'[p] = None
             /\ pc'[p] = Idle
             /\ outcome[p] \in {"ok", "RepeatedInitializationError"}
             /\ outcome'[p] # outcome[p] =>
                    outcome'[p] = "RepeatedInitializationError"]_vars

\* A second call was made on an initialised process of a job of several ranks.
C1_Witness ==
    /\ NProcs >= 2
    /\ \E p \in Procs :
          /\ Initialized(p)
          /\ outcome[p] = "RepeatedInitializationError"
          /\ CommOf(p, "bagua_global_comm") # None

\* C2: a rank that has returned from gen_nccl_unique_id for a communicator
\* holds the identifier its key's leader generated and holds: the key is in
\* the store, was set once and by the leader alone, and decodes to that value.
C2_RendezvousAgreement ==
    \A p \in Procs, t \in CommTypes :
        uid[p][t] # <<>> =>
            LET root == RootOf(p, t)
                key == StoreKey(t, root)
            IN  /\ key \in DOMAIN store
                /\ writes[key] = <<root>>
                /\ Utf8Encode(uid[root][t]) = store[key]
                /\ uid[p][t] = uid[root][t]
                /\ \E n \in 0 .. nextId[root] - 1 :
                      uid[p][t] = generate_nccl_unique_id_str(root, n)

\* Followers hold an identifier of each purpose, one of them a node leader's
\* that is not rank 0.
C2_Witness ==
    \E p \in Procs :
        /\ RootOf(p, "bagua_intra_comm") \notin {0, get_rank(p)}
        /\ \A t \in CommTypes : uid[p][t] # <<>>

\* C3: an initialised rank holds an inter-node communicator iff its rank is a
\* multiple of local_size, and holds None otherwise; with 4 ranks and
\* local_size 2 the holders are ranks 0 and 2.
C3_InterMembership ==
    /\ \A p \in Procs :
          Initialized(p) =>
              (CommOf(p, "bagua_inter_comm") # None
                  <=> get_rank(p) % get_local_size(p) = 0)
    /\ (launch.envset /\ launch.world_size = 4 /\ launch.local_size = 2
            /\ AllInitialized)
          => {p \in Procs : CommOf(p, "bagua_inter_comm") # None} = {0, 2}

C3_Witness ==
    /\ launch.envset /\ launch.world_size = 4 /\ launch.local_size = 2
    /\ AllInitialized
    /\ CommOf(1, "bagua_inter_comm") = None
    /\ CommOf(2, "bagua_inter_comm") # None

\* C4 (the claim as stated): when world_size is no multiple of local_size, a
\* call of init_process_group ends in an error, and no process constructs an
\* object, generates or sets an identifier, gets a key or becomes initialised.
C4_ConfigErrorBeforeAnyWork ==
    ~ValidLaunch =>
        \A p \in Procs :
            /\ outcome[p] \in {"none", "ValueError", "IndexError"}
            /\ nobj[p] = 0
            /\ nextId[p] = 0
            /\ ngets[p] = 0
            /\ ~Initialized(p)

\* The intra-node communicators built or being joined, as the transport was
\* given them.
ArrivalsOf(comm_type) == {a \in arrivals : a.comm_type = comm_type}

\* The node of process p.
NodeOf(p) == get_rank(p) \div get_local_size(p)

\* The key process p uses for a communicator.
KeyOf(p, comm_type) == StoreKey(comm_type, RootOf(p, comm_type))

\* C5: with world_size a multiple of local_size, every intra-node communicator
\* is built with rank = global rank mod local_size and size = local_size; two
\* ranks use one intra-node key, and hold one intra-node identifier, iff they
\* are of one node; and the intra-node ranks of a node's ranks are 0 ..
\* local_size - 1, each once.
C5_IntraPartition ==
    ValidLaunch =>
        /\ \A a \in ArrivalsOf("bagua_intra_comm") :
              /\ a.rank = get_rank(a.proc) % get_local_size(a.proc)
              /\ a.nranks = get_local_size(a.proc)
        \* pairs of ranks, each as (node, rank mod local_size, local_size,
        \* intra-node key, initialised, intra-node communicator, rank)
        /\ \A x \in {<<NodeOf(p), get_rank(p) % get_local_size(p),
                       get_local_size(p), KeyOf(p, "bagua_intra_comm"),
                       Initialized(p),
                       IF Initialized(p) THEN CommOf(p, "bagua_intra_comm")
                       ELSE None, p>> : p \in Procs}
                  \X {<<NodeOf(q), KeyOf(q, "bagua_intra_comm"), Initialized(q),
                        IF Initialized(q) THEN CommOf(q, "bagua_intra_comm")
                        ELSE None, q>> : q \in Procs} :
              LET sameNode == x[1][1] = x[2][1]
              IN  /\ (x[1][4] = x[2][2]) <=> sameNode
                  /\ (x[1][5] /\ x[2][3]) =>
                        /\ x[1][6].rank = x[1][2]
                        /\ x[1][6].nranks = x[1][3]
                        /\ (x[1][6].uid = x[2][4].uid) <=> sameNode
                        /\ (sameNode /\ x[1][7] # x[2][5]) =>
                              x[1][6].rank # x[2][4].rank
        /\ AllInitialized =>
              \A p \in Procs :
                  {CommOf(q, "bagua_intra_comm").rank :
                      q \in {x \in Procs : get_rank(x) \div get_local_size(x)
                                             = get_rank(p) \div get_local_size(p)}}
                    = 0 .. get_local_size(p) - 1

\* Two nodes of two ranks each, all bootstrapped.
C5_Witness ==
    /\ launch.envset /\ launch.world_size = 4 /\ launch.local_size = 2
    /\ AllInitialized
    /\ CommOf(3, "bagua_intra_comm").rank = 1
    /\ CommOf(3, "bagua_intra_comm").uid # CommOf(1, "bagua_intra_comm").uid

\* C6: with world_size a multiple of local_size, every inter-node communicator
\* is built with rank = node index and size = world_size div local_size, on
\* the identifier rank 0 set under the inter-node key; once all ranks are
\* initialised every node has exactly one inter-node member and the members'
\* inter-node ranks are 0 .. world_size div local_size - 1, each once.
C6_InterGroupShape ==
    ValidLaunch =>
        /\ \A a \in ArrivalsOf("bagua_inter_comm") :
              /\ a.rank = get_rank(a.proc) \div get_local_size(a.proc)
              /\ a.nranks = get_world_size(a.proc) \div get_local_size(a.proc)
              /\ get_rank(a.proc) % get_local_size(a.proc) = 0
              /\ writes[StoreKey("bagua_inter_comm", 0)] = <<0>>
              /\ Utf8Encode(a.uid) = store[StoreKey("bagua_inter_comm", 0)]
        /\ \A p \in Procs :
              (Initialized(p) /\ CommOf(p, "bagua_inter_comm") # None) =>
                  /\ CommOf(p, "bagua_inter_comm").rank
                        = get_rank(p) \div get_local_size(p)
                  /\ CommOf(p, "bagua_inter_comm").nranks
                        = get_world_size(p) \div get_local_size(p)
                  /\ Utf8Encode(CommOf(p, "bagua_inter_comm").uid)
                        = store[StoreKey("bagua_inter_comm", 0)]
        /\ AllInitialized =>
              LET members == {p \in Procs : CommOf(p, "bagua_inter_comm") # None}
                  nodes == 0 .. (launch.world_size \div launch.local_size) - 1
              IN  /\ \A n \in nodes :
                        Cardinality({p \in members :
                                       get_rank(p) \div get_local_size(p) = n}) = 1
                  /\ {CommOf(p, "bagua_inter_comm").rank : p \in members} = nodes
                  /\ Cardinality(members) = Cardinality(nodes)

\* Two nodes of two ranks: ranks 0 and 2 are inter-node ranks 0 and 1.
C6_Witness ==
    /\ launch.envset /\ launch.world_size = 4 /\ launch.local_size = 2
    /\ AllInitialized
    /\ CommOf(0, "bagua_inter_comm").rank = 0
    /\ CommOf(2, "bagua_inter_comm").rank = 1
    /\ CommOf(2, "bagua_inter_comm").nranks = 2
    /\ CommOf(2, "bagua_inter_comm").uid = CommOf(0, "bagua_inter_comm").uid

\* ----------------------------------------------------------- collective claims
\* The ranks of the communicator process p calls its collective on.
GroupOf(p) ==
    {m \in Procs :
        /\ round.tier = "inter" => CommArg(m) # None
        /\ CommUsed(m).uid = CommUsed(p).uid}

\* The tensors a call of the round's collective is given.
Inputs == IF round.op \in {"broadcast", "allreduce"} THEN {1} ELSE 1 .. Len(Shapes)

\* The kinds of the work a call of the round's collective puts on the
\* communication stream, in program order.
ExpectedKinds ==
    LET copies == [i \in 1 .. Len(Shapes) |-> "copy_"]
        div == IF round.average THEN <<"div">> ELSE <<>>
    IN  CASE round.op = "broadcast" -> <<"wait_event", "broadcast">>
          [] round.op = "broadcast_coalesced" ->
                <<"wait_event", "flatten", "broadcast">> \o copies
          [] round.op = "allreduce" -> <<"wait_event", "allreduce">> \o div
          [] round.op = "allreduce_coalesced" ->
                <<"wait_event", "flatten", "allreduce">> \o div \o copies

\* C7: on every process the work of a collective on the communication stream
\* starts with the wait for an event that was recorded on the current stream,
\* so every other item of the call is behind it in the stream; and when any
\* such item has run, the event is complete and no kernel that was pending on
\* the current stream at the call is still pending.
C7_ComputeBeforeCommunicate ==
    \A p \in Procs :
        LET work == commLog[p] \o commQ[p]
        IN  /\ work # <<>> =>
                  /\ work[1].k = "wait_event"
                  /\ event[p] # "none"
                  /\ \A i \in 2 .. Len(work) : work[i].k # "wait_event"
            /\ (\E i \in DOMAIN commLog[p] : commLog[p][i].k # "wait_event") =>
                  /\ event[p] = "complete"
                  /\ PendingKernels(computeQ[p]) = 0
                  /\ computeQ[p] = <<>>

\* A call that found a kernel pending has had its transport operation run, in
\* a group of several ranks.
C7_Witness ==
    \E p \in Procs :
        /\ round.kernels >= 1
        /\ Cardinality(GroupOf(p)) >= 2
        /\ \E i \in DOMAIN commLog[p] : commLog[p][i].k \in {"broadcast", "allreduce"}
        /\ tensors[p] # InitialTensors(p)

\* C8: when a collective has returned, both streams of the process are empty
\* and the communication stream has run all the work of the call: the wait,
\* the flatten copy, the transport operation, the division when averaging,
\* and the copy of every view back into its tensor, in list order.
C8_SynchronousCompletion ==
    \A p \in Procs :
        hpc[p] = "returned" =>
            /\ commQ[p] = <<>>
            /\ computeQ[p] = <<>>
            /\ [i \in DOMAIN commLog[p] |-> commLog[p][i].k] = ExpectedKinds
            /\ \A i \in 1 .. Len(Shapes) :
                  round.op \in {"broadcast_coalesced", "allreduce_coalesced"} =>
                      commLog[p][Len(commLog[p]) - Len(Shapes) + i].i = i

\* An averaging coalesced allreduce over several ranks has returned.
C8_Witness ==
    \E p \in Procs :
        /\ hpc[p] = "returned"
        /\ round.op = "allreduce_coalesced" /\ round.average
        /\ round.kernels >= 1
        /\ Cardinality(GroupOf(p)) >= 2
        /\ Len(commLog[p]) = 6

\* The sum over the ranks ms of element j of tensor i as each rank's call was
\* given it.
RECURSIVE SumPre(_, _, _)
SumPre(ms, i, j) ==
    IF ms = {} THEN <<0, 1>>
    ELSE LET m == CHOOSE x \in ms : TRUE
         IN  FracAdd(pre[m][i].data[j], SumPre(ms \ {m}, i, j))

\* C9: when an allreduce or allreduce_coalesced has returned on a rank, every
\* element of every tensor of the call holds the sum of that element over all
\* ranks of the communicator as their calls were given it, divided by the
\* communicator's size when average is set; a tensor that was not passed is
\* as it was; two ranks of the group that have returned hold the same data;
\* and the scalars 0, 1, 2, 3 of four ranks average to 3/2 on every rank.
C9_AllreduceResult ==
    round.op \in {"allreduce", "allreduce_coalesced"} =>
        \A p \in Procs :
            hpc[p] = "returned" =>
                /\ \A i \in Inputs :
                      \A j \in 1 .. Shapes[i] :
                          tensors[p][i].data[j] =
                              IF round.average
                              THEN FracDiv(SumPre(GroupOf(p), i, j),
                                           Cardinality(GroupOf(p)))
                              ELSE SumPre(GroupOf(p), i, j)
                /\ \A i \in (1 .. Len(Shapes)) \ Inputs :
                      tensors[p][i] = pre[p][i]
                /\ \A q \in GroupOf(p) :
                      hpc[q] = "returned" =>
                          \A i \in Inputs : tensors[q][i] = tensors[p][i]
                /\ (launch.world_size = 4 /\ round.tier = "default"
                        /\ round.average /\ round.kernels = 0)
                      => tensors[p][1].data = << <<3, 2>> >>

\* Four ranks have averaged their scalars 0, 1, 2, 3 over the global
\* communicator and hold 3/2.
C9_Witness ==
    /\ launch.world_size = 4 /\ round.tier = "default"
    /\ round.op = "allreduce" /\ round.average /\ round.kernels = 0
    /\ \A p \in Procs : hpc[p] = "returned" /\ tensors[p][1].data = << <<3, 2>> >>
    /\ \A p \in Procs : pre[p][1].data = <<Frac(p, 1)>>

\* The rank of the group of p whose rank in the communicator is the root.
RootMember(p) ==
    CHOOSE m \in GroupOf(p) : CommUsed(m).rank = round.root

\* C10: when a broadcast or broadcast_coalesced with root r has returned on a
\* rank, every tensor of the call holds, element by element and in list
\* order, what the call of the communicator's rank r was given for that
\* tensor; a tensor that was not passed is as it was; the root's tensors are
\* as its call was given them.
C10_BroadcastResult ==
    round.op \in {"broadcast", "broadcast_coalesced"} =>
        \A p \in Procs :
            hpc[p] = "returned" =>
                /\ \A i \in Inputs :
                      tensors[p][i].data = pre[RootMember(p)][i].data
                /\ \A i \in (1 .. Len(Shapes)) \ Inputs :
                      tensors[p][i] = pre[p][i]
                /\ CommUsed(p).rank = round.root => tensors[p] = pre[p]

\* A coalesced broadcast from the last of four ranks has returned on rank 0,
\* whose tensors were different before.
C10_Witness ==
    /\ launch.world_size = 4 /\ round.tier = "default"
    /\ round.op = "broadcast_coalesced" /\ round.root = 3
    /\ hpc[0] = "returned"
    /\ tensors[0][2].data = pre[3][2].data
    /\ tensors[0][2].data # pre[0][2].data
    /\ tensors[0][1].data # tensors[0][2].data

\* ------------------------------------------------- claims on the arguments
\* The kernels of the program that have run on process p.
KernelsRun(p) ==
    IF hpc[p] = "idle" THEN 0 ELSE round.kernels - PendingKernels(computeQ[p])

\* The tensors of p hold what the program's own kernels have made of them:
\* no work of a collective has written them.
UntouchedByCall(p) ==
    \A i \in DOMAIN tensors[p] :
        tensors[p][i].data = KernelTimes(
            [InitialTensors(p) EXCEPT ![i].device = tensors[p][i].device],
            KernelsRun(p))[i].data

\* C11: on a process whose call is given a tensor on the host (the tensor of
\* broadcast or allreduce, any tensor of the list of the coalesced forms),
\* the call fails with the assertion and at no time has an event been
\* recorded, a wait or any other work been put on the communication stream,
\* a flat buffer been built or a transport operation run, and the tensors
\* are as the program's kernels left them.
C11_HostTensorRejected ==
    \A p \in Procs :
        (\E i \in Inputs : tensors[p][i].device = "cpu") =>
            /\ hpc[p] \in {"idle", "AssertionError"}
            /\ event[p] = "none"
            /\ \A k \in DOMAIN computeQ[p] : computeQ[p][k].k = "kernel"
            /\ commQ[p] = <<>>
            /\ commLog[p] = <<>>
            /\ coalesced[p] = <<>>
            /\ pre[p] = <<>>
            /\ UntouchedByCall(p)

\* A coalesced call whose second tensor is on the host has failed, in a job
\* of two ranks, after the kernel launched before it has run.
C11_Witness ==
    \E p \in Procs :
        /\ hpc[p] = "AssertionError"
        /\ round.op \in {"broadcast_coalesced", "allreduce_coalesced"}
        /\ tensors[p][1].device = "cuda" /\ tensors[p][2].device = "cpu"
        /\ launch.world_size = 2
        /\ round.kernels >= 1 /\ computeQ[p] = <<>>
        /\ tensors[p][1].data # InitialTensors(p)[1].data

\* ------------------------------------------------- further bootstrap claims
\* C12: in a job whose init_method has a scheme other than "dist" and "file",
\* every call of init_process_group ends in the configuration error
\* (ValueError), and at no time is a store created, a key set or got, a
\* backend, stream or communicator built, or the process initialised.
C12_IllegalSchemeRejected ==
    launch.metas[1] \notin {"dist", "file"} =>
        /\ store = <<>> /\ writes = <<>> /\ arrivals = {}
        /\ \A p \in Procs :
              /\ outcome[p] \in {"none", "ValueError"}
              /\ attempts[p] >= 1 => outcome[p] = "ValueError"
              /\ pc[p] = Idle
              /\ ~dist_initialized[p]
              /\ building[p] = None /\ nobj[p] = 0
              /\ ngets[p] = 0 /\ nextId[p] = 0 /\ uid[p] = NoIds
              /\ gstate[p] = None

\* A rank of a job of several ranks has called init_process_group("tcp://host")
\* twice and was refused twice.
C12_Witness ==
    /\ launch.metas = <<"tcp", "host">>
    /\ launch.world_size >= 2
    /\ \E p \in Procs : outcome[p] = "ValueError" /\ attempts[p] = 2

C14_StoreKeyIsolation ==
    (\A p \in Procs : attempts[p] <= 1) =>
        /\ DOMAIN writes = DOMAIN store
        /\ \A k \in DOMAIN writes : Len(writes[k]) = 1
        \* pairs of (communicator, key) over all ranks
        /\ \A x \in {<<t, KeyOf(p, t)>> : p \in Procs, t \in CommTypes}
                  \X {<<t, KeyOf(p, t)>> : p \in Procs, t \in CommTypes} :
              x[1][1] # x[2][1] => x[1][2] # x[2][2]
        \* pairs of ranks: (rank, node, first rank of the node, intra-node
        \* key, intra-node identifier held) and (rank, node, key, identifier)
        /\ \A x \in {<<p, NodeOf(p), NodeOf(p) * get_local_size(p),
                       KeyOf(p, "bagua_intra_comm"),
                       uid[p]["bagua_intra_comm"]>> : p \in Procs}
                  \X {<<p, NodeOf(p), KeyOf(p, "bagua_intra_comm"),
                        uid[p]["bagua_intra_comm"]>> : p \in Procs} :
              LET node == x[1][2]
                  first == x[1][3]
                  k == StoreKey("bagua_intra_comm", first)
              IN  /\ x[1][4] = x[2][3] <=> node = x[2][2]
                  /\ x[1][5] # <<>> =>
                        /\ k \in DOMAIN store
                        /\ writes[k] = <<first>>
                        /\ x[1][5] = Utf8Decode(store[k])
                        /\ (x[2][2] # node /\ x[2][4] # <<>>) => x[2][4] # x[1][5]

\* Four ranks on two nodes have each bootstrapped once: the store holds the
\* inter-node key, the global key and one intra-node key per node.
C14_Witness ==
    /\ launch.world_size = 4 /\ launch.local_size = 2
    /\ \A p \in Procs : attempts[p] = 1 /\ gstate[p] # None
    /\ Cardinality(DOMAIN store) = 4
    /\ uid[1]["bagua_intra_comm"] # uid[3]["bagua_intra_comm"]

\* Process p is in store.get for the key of communicator t, whose root has
\* crashed without the key ever having been set.
BlockedOnCrashedLeader(p, t) ==
    /\ pc[p] = <<"gen", t>>
    /\ get_rank(p) # RootOf(p, t)
    /\ pc[RootOf(p, t)] = Crashed
    /\ StoreKey(t, RootOf(p, t)) \notin DOMAIN store

NeedsCrashedKey(p, t) ==
    /\ get_rank(p) # RootOf(p, t)
    /\ pc[RootOf(p, t)] = Crashed
    /\ StoreKey(t, RootOf(p, t)) \notin DOMAIN store

C16_BootstrapProgress ==
    /\ <>[](\A p \in Procs : gstate[p] # None)
    /\ [](\A p \in Procs : outcome[p] \in {"none", "running", "ok",
                                           "RepeatedInitializationError"})

\* Four ranks on two nodes are all initialised, each after one bootstrap in
\* which the ranks 1 and 3 got three keys and the ranks 0 and 2 fewer.
C16_Witness ==
    /\ launch.world_size = 4 /\ launch.local_size = 2
    /\ \A p \in Procs : gstate[p] # None /\ attempts[p] = 1
    /\ ngets[1] = 3 /\ ngets[3] = 3 /\ ngets[0] = 0 /\ ngets[2] = 2

\* ------------------------------------------------ further collective claims
\* The positions of the items of kind k in a sequence of work.
Positions(work, k) == {i \in DOMAIN work : work[i].k = k}

\* Element j of tensor i after the reduction over the group of p, divided
\* once by the group's size when the round averages.
Reduced(p, i, j) ==
    IF round.average
    THEN FracDiv(SumPre(GroupOf(p), i, j), CommUsed(p).nranks)
    ELSE SumPre(GroupOf(p), i, j)

\* C17: of the work an allreduce or allreduce_coalesced puts on the
\* communication stream, exactly one item is a division when average is set
\* and none when it is not; the division is by the communicator's size,
\* comes after the reduction and, in the coalesced form, is on the flat
\* buffer and before every copy back.  A tensor of a coalesced call holds
\* what the program's kernels made of it until its view is copied back, and
\* from then on the sum divided once (the sum itself without average); the
\* tensor of allreduce holds the sum divided once when the division has run.
C17_AveragingOrder ==
    round.op \in {"allreduce", "allreduce_coalesced"} =>
        \A p \in Procs :
            LET work == commLog[p] \o commQ[p]
                divs == Positions(work, "div")
            IN  work # <<>> =>
                  /\ Cardinality(divs) = IF round.average THEN 1 ELSE 0
                  /\ Cardinality(Positions(work, "allreduce")) = 1
                  /\ \A d \in divs :
                        /\ work[d].nranks = CommUsed(p).nranks
                        /\ work[d].buf = IF round.op = "allreduce"
                                         THEN "tensor" ELSE "coalesced"
                        /\ \A r \in Positions(work, "allreduce") : r < d
                        /\ \A c \in Positions(work, "copy_") : d < c
                  /\ round.op = "allreduce_coalesced" =>
                        \A i \in DOMAIN tensors[p] :
                            \A j \in 1 .. Shapes[i] :
                                tensors[p][i].data[j] =
                                    IF \E c \in Positions(commLog[p], "copy_") :
                                           commLog[p][c].i = i
                                    THEN Reduced(p, i, j)
                                    ELSE KernelTimes(InitialTensors(p),
                                                     KernelsRun(p))[i].data[j]
                  /\ (round.op = "allreduce"
                        /\ Positions(commLog[p], "allreduce") # {}
                        /\ Positions(commQ[p], "div") = {}) =>
                        \A j \in 1 .. Shapes[1] :
                            tensors[p][1].data[j] = Reduced(p, 1, j)

\* Between the copies of an averaging coalesced allreduce over four ranks:
\* the first tensor of a rank holds the average, the second is still as the
\* kernel left it.
C17_Witness ==
    \E p \in Procs :
        /\ round.op = "allreduce_coalesced" /\ round.average
        /\ round.tier = "default" /\ launch.world_size = 4
        /\ round.kernels = 1
        /\ Len(commQ[p]) = 1 /\ commQ[p][1].k = "copy_"
        /\ tensors[p][1].data = << <<5, 2>> >>
        /\ tensors[p][2].data = pre[p][2].data

\* C18: on a process whose broadcast_coalesced or allreduce_coalesced is
\* given tensors on the device that are not all of one element type, at no
\* time has an event been recorded on the current stream, a wait or other
\* work been put on the communication stream or a transport operation run,
\* and the tensors are as the program's kernels left them.
C18_MixedTypeRejected ==
    \A p \in Procs :
        (/\ round.op \in {"broadcast_coalesced", "allreduce_coalesced"}
         /\ \A i \in Inputs : tensors[p][i].device = "cuda"
         /\ \E i, j \in Inputs : tensors[p][i].dtype # tensors[p][j].dtype) =>
            /\ hpc[p] \in {"idle", "flatten_error"}
            /\ event[p] = "none"
            /\ \A k \in DOMAIN computeQ[p] : computeQ[p][k].k = "kernel"
            /\ commQ[p] = <<>>
            /\ commLog[p] = <<>>
            /\ UntouchedByCall(p)


\* The collective at position n of the program (0 is the first).
RoundAt(n) == IF n = 0 THEN round ELSE later[n]

\* The communicator process p uses in the collective at position n; None
\* when p leaves the call out.
CommAt(p, n) ==
    CASE RoundAt(n).tier = "default" -> gstate[p].comms["bagua_global_comm"]
      [] RoundAt(n).tier = "intra" -> gstate[p].comms["bagua_intra_comm"]
      [] RoundAt(n).tier = "inter" -> gstate[p].comms["bagua_inter_comm"]

\* The transport operations of the collectives process p has issued up to
\* position n, in issue order: kind and group identifier.
RECURSIVE IssuedTransports(_, _)
IssuedTransports(p, n) ==
    IF n < 0 THEN <<>>
    ELSE IssuedTransports(p, n - 1) \o
         (IF CommAt(p, n) = None \/ (n = ncalls[p] /\ hpc[p] = "idle")
          THEN <<>>
          ELSE << <<IF RoundAt(n).op \in {"broadcast", "broadcast_coalesced"}
                    THEN "broadcast" ELSE "allreduce",
                    CommAt(p, n).uid>> >>)

\* The transport operations in a sequence of work items: kind and group
\* identifier.
RECURSIVE TransportsIn(_)
TransportsIn(q) ==
    IF q = <<>> THEN <<>>
    ELSE (IF Head(q).k \in {"broadcast", "allreduce"}
          THEN << <<Head(q).k, Head(q).uid>> >> ELSE <<>>) \o TransportsIn(Tail(q))

\* C19 (state part): on every process the transport operations that have run
\* followed by those still on the communication stream are the operations
\* of the collectives the process has issued, in issue order, and at most one
\* of them is on the stream at any time.
C19_OneInFlight ==
    \A p \in Procs :
        /\ TransportsIn(commLog[p] \o commQ[p]) = IssuedTransports(p, ncalls[p])
        /\ Len(TransportsIn(commQ[p])) <= 1

\* C19 (step part): whenever a process puts work on a stream of its device
\* or issues a collective, both of its streams are empty, that is all device
\* work of the collectives it issued before has completed.
C19_IssueAfterCompletion ==
    \A p \in Procs :
        (\/ Len(commQ'[p]) > Len(commQ[p])
         \/ Len(computeQ'[p]) > Len(computeQ[p])
         \/ hpc[p] = "idle" /\ hpc'[p] # "idle") =>
            /\ commQ[p] = <<>>
            /\ computeQ[p] = <<>>

\* C19: per-process issue order, the two parts together.
C19_IssueOrder == []C19_OneInFlight /\ [][C19_IssueAfterCompletion]_vars

\* In a job of two ranks a process is in its second collective, on another
\* communicator than the first, with kernels launched in between; the
\* transport has run the first and the second is on the stream.
C19_Witness ==
    \E p \in Procs :
        /\ NProcs = 2
        /\ ncalls[p] = 1
        /\ hpc[p] = "synchronize"
        /\ later[1].kernels >= 1
        /\ CommAt(p, 0) # None /\ CommAt(p, 1) # None
        /\ CommAt(p, 0).uid # CommAt(p, 1).uid
        /\ CommAt(p, 0).nranks = 2
        /\ Len(TransportsIn(commLog[p])) = 1
        /\ Len(TransportsIn(commQ[p])) = 1

\* The ways an init_process_group call fails in its bootstrap: the scheme,
\* the store's creation, the transport's group join, the identifier exchange.
BootstrapFailures == {"ValueError", "IndexError", "TransportError", "StoreTimeout"}

\* C20: a process is initialised only with a global state that holds its
\* backend, its stream and all three communicator slots (the inter-node one
\* None exactly on a rank outside the inter-node group); a process whose
\* latest init_process_group call failed in the bootstrap, or is under way,
\* is not initialised; and a call is rejected as repeated only on an
\* initialised process.
C20_AllOrNothing ==
    \A p \in Procs :
        /\ is_initialized(p) =>
              /\ DOMAIN gstate[p].comms = CommTypes
              /\ gstate[p].comms["bagua_intra_comm"] # None
              /\ gstate[p].comms["bagua_global_comm"] # None
              /\ (gstate[p].comms["bagua_inter_comm"] = None) = ~InterMember(p)
              /\ gstate[p].backend \in 1 .. nobj[p]
              /\ gstate[p].stream \in 1 .. nobj[p]
              /\ \A t \in CommTypes :
                    gstate[p].comms[t] # None =>
                        gstate[p].comms[t].cuda_stream = gstate[p].stream
              /\ building[p] = None
        /\ outcome[p] \in BootstrapFailures \cup {"running", "crashed"} =>
              ~is_initialized(p)
        /\ outcome[p] = "RepeatedInitializationError" => is_initialized(p)

\* A process whose first call failed after it had built communicators (its
\* store.get timed out in the identifier exchange, or the transport refused
\* its rank) has called again and the call began a second bootstrap.
C20_Witness ==
    \E p \in Procs :
        /\ attempts[p] = 2
        /\ outcome[p] = "running"
        /\ ~is_initialized(p)
        /\ nobj[p] >= 5
        /\ building[p] # None
=============================================================================
